---------------------------- MODULE Spec2Model ----------------------------
(***************************************************************************)
(* AppRecom (patrickeddy/apprecom): a two-attribute association-rule       *)
(* learner.  train(data, min_support, min_conf, testRatio) runs five       *)
(* cross-validation rounds, computes the rule table over the whole         *)
(* dataset and writes it with fs.writeFile; getApps(location) reads the    *)
(* file back with fs.readFile and looks the location up.                   *)
(*                                                                         *)
(* Modelled from src/src/AppRecom.js (the ES source; src/unnamed/part_000  *)
(* is its compiled build and has the same behaviour).  src/lib/AppRecom.js *)
(* is an older build whose _getRules tries both directions; it is modelled *)
(* separately as getRulesLib.                                              *)
(*                                                                         *)
(* Numbers.  The thresholds are JavaScript doubles given by the caller;    *)
(* they are modelled as exact fractions [num, den].  A quotient of two     *)
(* small integers is correctly rounded, and so is a decimal literal, so    *)
(* for the integers of this model  a / b < t  on doubles agrees with the   *)
(* comparison of the exact fractions.  A division by zero gives Infinity   *)
(* or NaN, which RatioLt / RatioGe decide as JavaScript does.              *)
(*                                                                         *)
(* Text.  JSON text is modelled as a sequence of tokens (punctuation and   *)
(* string literals); jstr produces it and parse reads it back.             *)
(***************************************************************************)
EXTENDS Integers, Sequences, FiniteSets, TLC

-----------------------------------------------------------------------------
(* Values *)

\* What Array.prototype.pop returns on an empty array.
Undefined == [undefined |-> TRUE]

Obs(p, a) == [pcat |-> p, acat |-> a]

\* A fraction num/den with den > 0 standing for the double the caller passes.
Frac(n, d) == [num |-> n, den |-> d]

\* a / b < t  in JavaScript, a >= 0, b >= 0 integers: a/0 is Infinity (a > 0)
\* or NaN (a = 0), and neither is below a finite threshold.
RatioLt(a, b, t) == IF b = 0 THEN FALSE ELSE a * t.den < t.num * b

\* a / b >= t  in JavaScript: Infinity >= t holds, NaN >= t does not.
RatioGe(a, b, t) == IF b = 0 THEN a > 0 ELSE a * t.den >= t.num * b

\* Math.round(x) for x = n/d >= 0: the nearest integer, halves upwards.
MathRound(n, d) == (2 * n + d) \div (2 * d)

-----------------------------------------------------------------------------
(* JSON text: jstr([pcat, acat]) of an itemset key, and parse of it *)

\* A token of JSON text: a punctuation mark, or a string literal.
Tok(p) == [t |-> p, s |-> ""]
Str(s) == [t |-> "str", s |-> s]

jstrPair(p, a) == <<Tok("["), Str(p), Tok(","), Str(a), Tok("]")>>

parsePair(k) == <<k[2].s, k[4].s>>

-----------------------------------------------------------------------------
(* A JavaScript Map: entries in insertion order *)

MapHas(m, k) == \E i \in DOMAIN m : m[i].key = k

MapGet(m, k) == LET i == CHOOSE j \in DOMAIN m : m[j].key = k IN m[i].n

\* Map.prototype.set: an existing key keeps its place.
MapSet(m, k, v) ==
    IF MapHas(m, k)
    THEN [i \in DOMAIN m |-> IF m[i].key = k THEN [key |-> k, n |-> v] ELSE m[i]]
    ELSE Append(m, [key |-> k, n |-> v])

MapDelete(m, k) == SelectSeq(m, LAMBDA e : e.key # k)

-----------------------------------------------------------------------------
(* _countItemsets *)

\* Reading instance.pcat of undefined throws a TypeError.
countItemsetsThrows(data) == \E i \in DOMAIN data : data[i] = Undefined

\* A counting step that fills a new key in with 1 before the increment.
countOneFromOne(itemsetSupport, instance) ==
    LET mapKey == jstrPair(instance.pcat, instance.acat)
        filled == IF ~MapHas(itemsetSupport, mapKey)
                  THEN MapSet(itemsetSupport, mapKey, 1)
                  ELSE itemsetSupport
    IN  MapSet(filled, mapKey, MapGet(filled, mapKey) + 1)

countOne(itemsetSupport, instance) ==
    LET mapKey == jstrPair(instance.pcat, instance.acat)
        filled == IF ~MapHas(itemsetSupport, mapKey)
                  THEN MapSet(itemsetSupport, mapKey, 0)
                  ELSE itemsetSupport
    IN  MapSet(filled, mapKey, MapGet(filled, mapKey) + 1)

RECURSIVE countFrom(_, _, _)
countFrom(data, i, itemsetSupport) ==
    IF i > Len(data) THEN itemsetSupport
    ELSE countFrom(data, i + 1, countOne(itemsetSupport, data[i]))

countItemsets(data) == countFrom(data, 1, <<>>)

-----------------------------------------------------------------------------
(* _itemsetPrune, _getOptimalItemset *)

\* A pruning test that also rejects a support equal to min_support.
pruneTestAtMost(support, length, min_support) ==
    IF length = 0 THEN FALSE ELSE support * min_support.den <= min_support.num * length

\* A pruning test that rejects nothing.
pruneTestNothing(support, length, min_support) == FALSE

\* The rejection test of the pruning loop.
pruneTest(support, length, min_support) == RatioLt(support, length, min_support)

RECURSIVE pruneFrom(_, _, _, _, _)
pruneFrom(itemsetSupport, i, keepers, length, min_support) ==
    IF i > Len(itemsetSupport) THEN keepers
    ELSE pruneFrom(itemsetSupport, i + 1,
                   IF pruneTest(itemsetSupport[i].n, length, min_support)
                   THEN MapDelete(keepers, itemsetSupport[i].key)
                   ELSE keepers,
                   length, min_support)

itemsetPrune(itemsetSupport, length, min_support) ==
    pruneFrom(itemsetSupport, 1, itemsetSupport, length, min_support)

getOptimalItemset(data, min_support) ==
    itemsetPrune(countItemsets(data), Len(data), min_support)

-----------------------------------------------------------------------------
(* A plain JavaScript object used as a table: own keys in insertion order  *)
(* (the category names of this model are not integer-like, so no key is    *)
(* reordered), and Object.prototype behind it.                             *)

\* Names every object inherits from Object.prototype (two of them stand for
\* all): rules[name] is then a function, which is truthy and is no array.
ProtoKeys == {"constructor", "toString"}

ObjHas(o, k) == \E i \in DOMAIN o : o[i].key = k

ObjGet(o, k) == LET i == CHOOSE j \in DOMAIN o : o[j].key = k IN o[i].val

ObjSet(o, k, v) ==
    IF ObjHas(o, k)
    THEN [i \in DOMAIN o |-> IF o[i].key = k THEN [key |-> k, val |-> v] ELSE o[i]]
    ELSE Append(o, [key |-> k, val |-> v])

\* The truthiness of rules[k]: an own entry (an array) or an inherited function.
Truthy(o, k) == ObjHas(o, k) \/ k \in ProtoKeys

-----------------------------------------------------------------------------
(* _valueFreq, _addRules, _getRules *)

RECURSIVE valueFreqFrom(_, _, _)
valueFreqFrom(ogData, i, value) ==
    IF i > Len(ogData) THEN 0
    ELSE (IF ogData[i].pcat = value \/ ogData[i].acat = value THEN 1 ELSE 0)
         + valueFreqFrom(ogData, i + 1, value)

\* A frequency that counts an observation once for each field holding value.
RECURSIVE valueFreqPerFieldFrom(_, _, _)
valueFreqPerFieldFrom(ogData, i, value) ==
    IF i > Len(ogData) THEN 0
    ELSE (IF ogData[i].pcat = value THEN 1 ELSE 0)
         + (IF ogData[i].acat = value THEN 1 ELSE 0)
         + valueFreqPerFieldFrom(ogData, i + 1, value)

valueFreqPerField(ogData, value) == valueFreqPerFieldFrom(ogData, 1, value)

\* A frequency that looks at the location category only.
valueFreqLocationOnly(ogData, value) ==
    Cardinality({i \in DOMAIN ogData : ogData[i].pcat = value})

valueFreq(ogData, value) == valueFreqFrom(ogData, 1, value)

\* rules[hyp].push on an inherited function throws a TypeError.
addRulesThrows(rules, hyp) == ~ObjHas(rules, hyp) /\ hyp \in ProtoKeys

addRules(rules, hyp, con, count) ==
    LET value == [app |-> con, count |-> count]
    IN  IF ObjHas(rules, hyp)
        THEN ObjSet(rules, hyp, Append(ObjGet(rules, hyp), value))
        ELSE ObjSet(rules, hyp, <<value>>)

\* A confidence test with the two frequencies exchanged.
confTestReciprocal(conFreq, hypFreq, min_conf) == RatioGe(hypFreq, conFreq, min_conf)

\* A confidence test that rejects a confidence equal to min_conf.
confTestStrict(conFreq, hypFreq, min_conf) ==
    IF hypFreq = 0 THEN conFreq > 0 ELSE conFreq * min_conf.den > min_conf.num * hypFreq

\* The test that admits the rule hyp -> con.
confTest(conFreq, hypFreq, min_conf) == RatioGe(conFreq, hypFreq, min_conf)

\* The first loop of _getRules: one pass over the retained itemsets.
RECURSIVE emitFrom(_, _, _, _, _)
emitFrom(ogData, itemsets, i, min_conf, rules) ==
    IF i > Len(itemsets) THEN rules
    ELSE LET arr     == parsePair(itemsets[i].key)
             hyp     == arr[1]
             con     == arr[2]
             hypFreq == valueFreq(ogData, hyp)
             conFreq == valueFreq(ogData, con)
             count   == MapGet(itemsets, itemsets[i].key)
         IN  emitFrom(ogData, itemsets, i + 1, min_conf,
                      IF confTest(conFreq, hypFreq, min_conf)
                      THEN addRules(rules, hyp, con, count)
                      ELSE rules)

\* A first loop that falls back to con -> hyp, on the reciprocal ratio,
\* when hyp -> con fails.
RECURSIVE emitEitherWayFrom(_, _, _, _, _)
emitEitherWayFrom(ogData, itemsets, i, min_conf, rules) ==
    IF i > Len(itemsets) THEN rules
    ELSE LET arr     == parsePair(itemsets[i].key)
             hyp     == arr[1]
             con     == arr[2]
             hypFreq == valueFreq(ogData, hyp)
             conFreq == valueFreq(ogData, con)
             count   == MapGet(itemsets, itemsets[i].key)
         IN  emitEitherWayFrom(ogData, itemsets, i + 1, min_conf,
                 IF RatioGe(conFreq, hypFreq, min_conf)
                 THEN addRules(rules, hyp, con, count)
                 ELSE IF RatioGe(hypFreq, conFreq, min_conf)
                      THEN addRules(rules, con, hyp, count)
                      ELSE rules)

emitRulesEitherWay(ogData, itemsets, min_conf) ==
    emitEitherWayFrom(ogData, itemsets, 1, min_conf, <<>>)

\* A first loop that emits con -> hyp as well whenever the reciprocal ratio
\* meets min_conf.
RECURSIVE emitBothWaysFrom(_, _, _, _, _)
emitBothWaysFrom(ogData, itemsets, i, min_conf, rules) ==
    IF i > Len(itemsets) THEN rules
    ELSE LET arr     == parsePair(itemsets[i].key)
             hyp     == arr[1]
             con     == arr[2]
             hypFreq == valueFreq(ogData, hyp)
             conFreq == valueFreq(ogData, con)
             count   == MapGet(itemsets, itemsets[i].key)
             forward == IF RatioGe(conFreq, hypFreq, min_conf)
                        THEN addRules(rules, hyp, con, count)
                        ELSE rules
         IN  emitBothWaysFrom(ogData, itemsets, i + 1, min_conf,
                 IF RatioGe(hypFreq, conFreq, min_conf)
                 THEN addRules(forward, con, hyp, count)
                 ELSE forward)

emitRulesBothWays(ogData, itemsets, min_conf) ==
    emitBothWaysFrom(ogData, itemsets, 1, min_conf, <<>>)

emitRules(ogData, itemsets, min_conf) == emitFrom(ogData, itemsets, 1, min_conf, <<>>)

getRulesThrows(ogData, itemsets, min_conf) ==
    \E i \in DOMAIN itemsets :
        LET arr == parsePair(itemsets[i].key)
        IN  /\ confTest(valueFreq(ogData, arr[2]), valueFreq(ogData, arr[1]), min_conf)
            /\ arr[1] \in ProtoKeys

\* Array.prototype.sort with (a, b) => b.count - a.count.  The sort is stable
\* for the arrays of this model (V8 sorts arrays of up to ten elements by
\* insertion, and all arrays since Node 11 by a stable merge).
\* A comparison that puts an element ahead of the earlier ones of its count.
comesBeforeStrict(a, b) == b.count - a.count < 0

comesBefore(a, b) == b.count - a.count <= 0

RECURSIVE insertSorted(_, _)
insertSorted(sorted, e) ==
    IF sorted = <<>> THEN <<e>>
    ELSE IF comesBefore(sorted[1], e)
         THEN <<sorted[1]>> \o insertSorted(Tail(sorted), e)
         ELSE <<e>> \o sorted

RECURSIVE sortByCount(_)
sortByCount(arr) ==
    IF arr = <<>> THEN <<>>
    ELSE insertSorted(sortByCount(SubSeq(arr, 1, Len(arr) - 1)), arr[Len(arr)])

\* The second loop of _getRules: sort each entry, then strip the counts.
sortRules(rules) ==
    [i \in DOMAIN rules |-> [key |-> rules[i].key, val |-> sortByCount(rules[i].val)]]

stripRules(rules) ==
    [i \in DOMAIN rules |->
        [key |-> rules[i].key,
         val |-> [j \in DOMAIN rules[i].val |-> rules[i].val[j].app]]]

getRules(ogData, itemsets, min_conf) ==
    stripRules(sortRules(emitRules(ogData, itemsets, min_conf)))

-----------------------------------------------------------------------------
(* The older build, src/lib/AppRecom.js: _itemsetPrune returns the keys    *)
(* only, and _getRules tries hyp -> con and then con -> hyp, without       *)
(* counts and without ranking.                                             *)

itemsetPruneLib(itemsetSupport, length, min_support) ==
    LET keepers == itemsetPrune(itemsetSupport, length, min_support)
    IN  [i \in DOMAIN keepers |-> keepers[i].key]

addRulesLib(rules, hyp, con) ==
    IF ObjHas(rules, hyp)
    THEN ObjSet(rules, hyp, Append(ObjGet(rules, hyp), con))
    ELSE ObjSet(rules, hyp, <<con>>)

RECURSIVE getRulesLibFrom(_, _, _, _, _)
getRulesLibFrom(ogData, itemsets, i, min_conf, rules) ==
    IF i > Len(itemsets) THEN rules
    ELSE LET arr == parsePair(itemsets[i])
             hyp == arr[1]
             con == arr[2]
         IN  getRulesLibFrom(ogData, itemsets, i + 1, min_conf,
                 IF RatioGe(valueFreq(ogData, hyp), valueFreq(ogData, con), min_conf)
                 THEN addRulesLib(rules, hyp, con)
                 ELSE IF RatioGe(valueFreq(ogData, con), valueFreq(ogData, hyp), min_conf)
                      THEN addRulesLib(rules, con, hyp)
                      ELSE rules)

getRulesLib(ogData, itemsets, min_conf) ==
    getRulesLibFrom(ogData, itemsets, 1, min_conf, <<>>)

-----------------------------------------------------------------------------
(* JSON text of a rule table: jstr(rules) and parse(data) *)

RECURSIVE jstrArray(_, _)
jstrArray(arr, i) ==
    IF i > Len(arr) THEN <<Tok("]")>>
    ELSE (IF i > 1 THEN <<Tok(",")>> ELSE <<>>) \o <<Str(arr[i])>> \o jstrArray(arr, i + 1)

RECURSIVE jstrMembers(_, _)
jstrMembers(rules, i) ==
    IF i > Len(rules) THEN <<Tok("}")>>
    ELSE (IF i > 1 THEN <<Tok(",")>> ELSE <<>>)
         \o <<Str(rules[i].key), Tok(":"), Tok("[")>> \o jstrArray(rules[i].val, 1)
         \o jstrMembers(rules, i + 1)

jstr(rules) == <<Tok("{")>> \o jstrMembers(rules, 1)

\* JSON.parse throws a SyntaxError on text that is no JSON value.
SyntaxError == [ok |-> FALSE, rules |-> <<>>]

IsTok(text, i, p) == i <= Len(text) /\ text[i].t = p

\* The elements of an array from position i (just after "[" or ","), and the
\* position after its "]": [ok, val, next].
RECURSIVE parseArray(_, _, _)
parseArray(text, i, acc) ==
    IF IsTok(text, i, "]") /\ acc = <<>>
    THEN [ok |-> TRUE, val |-> acc, next |-> i + 1]
    ELSE IF ~IsTok(text, i, "str") THEN [ok |-> FALSE, val |-> <<>>, next |-> i]
    ELSE IF IsTok(text, i + 1, ",")
         THEN parseArray(text, i + 2, Append(acc, text[i].s))
         ELSE IF IsTok(text, i + 1, "]")
              THEN [ok |-> TRUE, val |-> Append(acc, text[i].s), next |-> i + 2]
              ELSE [ok |-> FALSE, val |-> <<>>, next |-> i]

\* The members of an object from position i (just after "{" or ","): a
\* repeated key keeps its first place and takes the last value.
RECURSIVE parseMembers(_, _, _)
parseMembers(text, i, acc) ==
    IF ~(IsTok(text, i, "str") /\ IsTok(text, i + 1, ":") /\ IsTok(text, i + 2, "["))
    THEN SyntaxError
    ELSE LET arr == parseArray(text, i + 3, <<>>)
             obj == ObjSet(acc, text[i].s, arr.val)
         IN  IF ~arr.ok THEN SyntaxError
             ELSE IF IsTok(text, arr.next, "}")
                  THEN IF arr.next = Len(text)
                       THEN [ok |-> TRUE, rules |-> obj]
                       ELSE SyntaxError
                  ELSE IF IsTok(text, arr.next, ",")
                       THEN parseMembers(text, arr.next + 1, obj)
                       ELSE SyntaxError

parse(text) ==
    IF ~IsTok(text, 1, "{") THEN SyntaxError
    ELSE IF IsTok(text, 2, "}")
         THEN IF Len(text) = 2 THEN [ok |-> TRUE, rules |-> <<>>] ELSE SyntaxError
         ELSE parseMembers(text, 2, <<>>)

-----------------------------------------------------------------------------
(* _testTrainingSet *)

\* A JavaScript number of the error estimate: a count of hundredths, or NaN.
Num(h) == [nan |-> FALSE, h |-> h]
NaN == [nan |-> TRUE, h |-> 0]
NumAdd(a, b) == IF a.nan \/ b.nan THEN NaN ELSE Num(a.h + b.h)

\* rules[instance.pcat] is truthy: the observation is counted.
considered(rules, instance) == Truthy(rules, instance.pcat)

\* An inherited function has no indexOf: a TypeError.
testTrainingSetThrows(rules, testingSet) ==
    \E i \in DOMAIN testingSet :
        ~ObjHas(rules, testingSet[i].pcat) /\ testingSet[i].pcat \in ProtoKeys

correct(rules, instance) ==
    \E j \in DOMAIN ObjGet(rules, instance.pcat) :
        ObjGet(rules, instance.pcat)[j] = instance.acat

testTotal(rules, testingSet) ==
    Cardinality({i \in DOMAIN testingSet : considered(rules, testingSet[i])})

\* A count of the incorrect that also takes in the observations without a rule.
testIncorrectOrUnknown(rules, testingSet) ==
    Cardinality({i \in DOMAIN testingSet :
                    ~considered(rules, testingSet[i]) \/ ~correct(rules, testingSet[i])})

testIncorrect(rules, testingSet) ==
    Cardinality({i \in DOMAIN testingSet :
                    considered(rules, testingSet[i]) /\ ~correct(rules, testingSet[i])})

\* errorrate = numIncorrect / total; errorrate != 0 ? round(errorrate*100)/100 : 0.
\* 0/0 is NaN, NaN != 0 holds, and Math.round(NaN) is NaN.
errorRate(numIncorrect, total) ==
    IF total = 0 THEN NaN
    ELSE IF numIncorrect # 0 THEN Num(MathRound(numIncorrect * 100, total)) ELSE Num(0)

testTrainingSet(rules, testingSet) ==
    errorRate(testIncorrect(rules, testingSet), testTotal(rules, testingSet))

-----------------------------------------------------------------------------
(* shuffle, and the split of a round of _testData *)

\* One pass of the loop body of shuffle: array[current] and array[top]
\* change places (positions counted from 1 here).
swap(array, current, top) ==
    [i \in DOMAIN array |->
        IF i = current THEN array[top] ELSE IF i = top THEN array[current] ELSE array[i]]

\* data.slice(): a new array with the same elements.
slice(data) == data

\* The caller's array if shuffleData were the caller's array itself.
aliasedData(data, shuffleData) == shuffleData

\* The caller's array after a step that wrote shuffleData: slice made
\* shuffleData an array of its own, so the write does not reach data.
callerData(data, shuffleData) == data

\* const numTraining = Math.round(data.length * testRatio)
numTrainingOf(data, testRatio) == MathRound(Len(data) * testRatio.num, testRatio.den)

\* How many times the body of  for (i = 0; i <= numTraining; i++)  runs.
popCount(numTraining) == numTraining + 1

\* The popped items in the order they are pushed on trainingSet: the last
\* element first, and undefined once the array is empty.
poppedItems(shuffleData, n) ==
    [i \in 1..n |-> IF i <= Len(shuffleData)
                    THEN shuffleData[Len(shuffleData) - i + 1]
                    ELSE Undefined]

\* What the pops leave in shuffleData.
afterPops(shuffleData, n) ==
    IF n >= Len(shuffleData) THEN <<>> ELSE SubSeq(shuffleData, 1, Len(shuffleData) - n)

\* averageError = Math.round(averageError / rounds * 100) / 100
averageOf(sum, rounds) == IF sum.nan THEN NaN ELSE Num(MathRound(sum.h, rounds))

-----------------------------------------------------------------------------
(* fs.writeFile and fs.readFile *)

\* fs.open(path, 'w'): the file is created or cut to length zero.
openForWrite(f) == [exists |-> TRUE, content |-> <<>>]

\* The write of the whole buffer at position 0 of the open file: text that
\* was there beyond the buffer's length stays.
writeAtStart(content, buffer) ==
    IF Len(content) > Len(buffer)
    THEN buffer \o SubSeq(content, Len(buffer) + 1, Len(content))
    ELSE buffer

\* A callback that resolves whatever fs.writeFile reports.
writeCallbackSwallowing(err) == [pc |-> "resolved", err |-> ""]

\* (err) => { if (err) rej(err); else res(); }: how the promise of train
\* settles, and the reason it is rejected with.
writeCallback(err) ==
    IF err # "" THEN [pc |-> "rejected", err |-> err] ELSE [pc |-> "resolved", err |-> ""]

\* rules[location] ? rules[location] : []
Settled(kind, val, err) == [kind |-> kind, val |-> val, err |-> err]
Unsettled == Settled("none", <<>>, "")

lookup(rules, location) ==
    IF ObjHas(rules, location) THEN Settled("list", ObjGet(rules, location), "")
    ELSE IF location \in ProtoKeys THEN Settled("inherited", <<>>, "")
    ELSE Settled("list", <<>>, "")

\* (err, data) => { if (err) rej(err); else { ... res(appRecommendations) } }
\* A SyntaxError thrown by parse leaves the promise unsettled.
readCallback(err, data, location) ==
    IF err # "" THEN [pc |-> "rejected", res |-> Settled("error", <<>>, err)]
    ELSE IF ~parse(data).ok THEN [pc |-> "threw", res |-> Unsettled]
    ELSE [pc |-> "resolved", res |-> lookup(parse(data).rules, location)]

-----------------------------------------------------------------------------
(* Bounds and inputs *)

\* train passes 5 as the number of rounds of _testData.
Rounds == 5

\* The train calls made on the one AppRecom instance.
MaxCalls == 2
Calls == 1..MaxCalls

\* The longest dataset given to a train call of SpecTrain.
MaxLen == 3

\* The longest dataset given to the pipeline of SpecPipeline.
MaxPipeLen == 3

RECURSIVE SeqsUpTo(_, _)
SeqsUpTo(S, n) ==
    IF n = 0 THEN {<<>>}
    ELSE LET shorter == SeqsUpTo(S, n - 1)
         IN  shorter \cup {Append(q, x) : q \in {r \in shorter : Len(r) = n - 1}, x \in S}

Args(d, ms, mc, r) == [data |-> d, min_support |-> ms, min_conf |-> mc, testRatio |-> r]

\* The defaults of train: min_support = 0.02, min_conf = 0.8, testRatio = 0.8.
DefaultSupport == Frac(2, 100)
DefaultConf == Frac(8, 10)
DefaultRatio == Frac(8, 10)

\* The worked example: 5 x (cafe, maps), 3 x (cafe, weather), 2 x (gym, fitness),
\* min_support 0.2, min_conf 0.6, the default testRatio.
ExampleData ==
    [i \in 1..10 |-> IF i <= 5 THEN Obs("cafe", "maps")
                     ELSE IF i <= 8 THEN Obs("cafe", "weather")
                     ELSE Obs("gym", "fitness")]
ExampleArgs == Args(ExampleData, Frac(2, 10), Frac(6, 10), DefaultRatio)

\* The train calls of Spec, which is about the store: short datasets whose
\* tables differ in their keys and in their length.
StoreArgs ==
    { Args(<<Obs("cafe", "maps"), Obs("cafe", "weather")>>, DefaultSupport, Frac(1, 2), Frac(2, 10)),
      Args(<<Obs("cafe", "maps"), Obs("cafe", "weather")>>, DefaultSupport, DefaultConf, Frac(2, 10)),
      Args(<<Obs("gym", "fitness")>>, DefaultSupport, DefaultConf, Frac(2, 10)),
      Args(<<Obs("gym", "fitness")>>, DefaultSupport, DefaultConf, DefaultRatio) }

\* The train calls of SpecTrain, which is about the rounds of _testData.
TrainObs == {Obs("cafe", "maps"), Obs("cafe", "weather"), Obs("gym", "maps")}
TrainArgs ==
    { Args(d, ms, mc, r) : d \in SeqsUpTo(TrainObs, MaxLen),
                           ms \in {DefaultSupport, Frac(1, 2)},
                           mc \in {Frac(1, 2), DefaultConf},
                           r \in {DefaultRatio, Frac(1, 2), Frac(2, 10)} }

\* The locations asked of getApps: categories of the datasets, a category
\* of no dataset, and a name every object inherits.
Locations == {"cafe", "gym", "maps", "park", "constructor"}

\* The inputs of SpecPipeline: every dataset over three categories, each of
\* which may stand in either field, and thresholds that the supports and
\* confidences of such datasets meet exactly.
PipeCats == {"cafe", "gym", "maps"}
PipeObs == {Obs(p, a) : p \in PipeCats, a \in PipeCats}
PipeSupports == {Frac(1, 3), Frac(1, 2), Frac(2, 3)}
PipeConfs == {Frac(1, 2), Frac(2, 3), Frac(1, 1)}

-----------------------------------------------------------------------------
(* State *)

VARIABLES
    file,      \* the rules file: [exists, content]
    rulesMem,  \* this.rules
    tpc,       \* per train call: idle, sync, open, write, resolved, rejected
    targ,      \* per train call: the arguments it was called with
    tout,      \* per train call: what its executor computed
    frame,     \* the locals of the executor that is running, if one is
    gpc,       \* the getApps call: idle, reading, resolved, rejected, threw
    gloc,      \* its location argument
    gres,      \* what its promise settled with
    gio,       \* the error fs.readFile reported to its callback ("": none)
    overlapped,\* some train was called while another's write was pending
    lastWrite, \* the train call whose write completed last (0: none)
    pipe       \* the pipeline run of SpecPipeline

vars == <<file, rulesMem, tpc, targ, tout, frame, gpc, gloc, gres, gio,
          overlapped, lastWrite, pipe>>

NoArgs == Args(<<>>, Frac(0, 1), Frac(0, 1), Frac(0, 1))

\* err: the reason the promise was rejected with; ioerr: the error
\* fs.writeFile reported to its callback.
NoOut == [optimalItemset |-> <<>>, rules |-> <<>>, text |-> <<>>, err |-> "", ioerr |-> ""]

NoFrame == [id |-> 0, pc |-> "none", data |-> <<>>, min_support |-> Frac(0, 1),
            min_conf |-> Frac(0, 1), testRatio |-> Frac(0, 1), numTraining |-> 0,
            count |-> 0, averageError |-> Num(0), shuffleData |-> <<>>, top |-> 0,
            trainingSet |-> <<>>, testingItemset |-> <<>>, trainingRules |-> <<>>,
            total |-> 0, numIncorrect |-> 0, error |-> Num(0)]

NoPipe == [stage |-> "none", data |-> <<>>, min_support |-> Frac(0, 1),
           min_conf |-> Frac(0, 1), counted |-> <<>>, kept |-> <<>>,
           emitted |-> <<>>, table |-> <<>>, lib |-> <<>>]

\* new AppRecom(): this.rules = [], and no rules file yet.
Init ==
    /\ file = [exists |-> FALSE, content |-> <<>>]
    /\ rulesMem = <<>>
    /\ tpc = [id \in Calls |-> "idle"]
    /\ targ = [id \in Calls |-> NoArgs]
    /\ tout = [id \in Calls |-> NoOut]
    /\ frame = NoFrame
    /\ gpc = "idle"
    /\ gloc = ""
    /\ gres = Unsettled
    /\ gio = ""
    /\ overlapped = FALSE
    /\ lastWrite = 0
    /\ pipe = NoPipe

getVars == <<gpc, gloc, gres, gio>>

-----------------------------------------------------------------------------
(* train: the executor of its promise runs in one turn of the event loop;  *)
(* no other callback runs until it has handed the table to fs.writeFile.   *)

\* A round begins: let shuffleData = data.slice(); shuffle(shuffleData) ...
beginRound(f) ==
    [f EXCEPT !.pc = "shuffle", !.shuffleData = slice(f.data), !.top = Len(f.data),
              !.trainingSet = <<>>, !.testingItemset = <<>>, !.trainingRules = <<>>,
              !.total = 0, !.numIncorrect = 0, !.error = Num(0)]

\* train(data, min_support, min_conf, testRatio) is called; _testData starts.
TrainCall(id, a) ==
    /\ frame.id = 0
    /\ tpc[id] = "idle"
    /\ \A j \in Calls : j < id => tpc[j] # "idle"
    /\ tpc' = [tpc EXCEPT ![id] = "sync"]
    /\ targ' = [targ EXCEPT ![id] = a]
    /\ overlapped' = (overlapped \/ \E j \in Calls : tpc[j] \in {"open", "write"})
    /\ frame' = beginRound([NoFrame EXCEPT
                    !.id = id, !.data = a.data, !.min_support = a.min_support,
                    !.min_conf = a.min_conf, !.testRatio = a.testRatio,
                    !.numTraining = numTrainingOf(a.data, a.testRatio)])
    /\ UNCHANGED <<file, rulesMem, tout, getVars, lastWrite, pipe>>

\* One pass of  while (--top) { current = floor(random() * (top + 1)); swap }.
ShuffleStep ==
    /\ frame.pc = "shuffle"
    /\ frame.top >= 2
    /\ \E current \in 1..frame.top :
         LET shuffled == swap(frame.shuffleData, current, frame.top)
         IN  frame' = [frame EXCEPT !.shuffleData = shuffled,
                                    !.top = frame.top - 1,
                                    !.data = callerData(frame.data, shuffled)]
    /\ UNCHANGED <<file, rulesMem, tpc, targ, tout, getVars, overlapped, lastWrite, pipe>>

roundTrainingSet(f) == poppedItems(f.shuffleData, popCount(f.numTraining))
roundTestingSet(f) == afterPops(f.shuffleData, popCount(f.numTraining))
roundRules(f) ==
    getRules(roundTrainingSet(f),
             getOptimalItemset(roundTrainingSet(f), f.min_support), f.min_conf)

\* The round throws a TypeError: an undefined item in the training set, or
\* a category that names an inherited property.
roundThrows(f) ==
    \/ countItemsetsThrows(roundTrainingSet(f))
    \/ /\ ~countItemsetsThrows(roundTrainingSet(f))
       /\ \/ getRulesThrows(roundTrainingSet(f),
                            getOptimalItemset(roundTrainingSet(f), f.min_support),
                            f.min_conf)
          \/ testTrainingSetThrows(roundRules(f), roundTestingSet(f))

\* The rest of a round after the shuffle: the pops, the training, the test.
RoundEnd ==
    /\ frame.pc = "shuffle"
    /\ frame.top <= 1
    /\ ~roundThrows(frame)
    /\ LET rules == roundRules(frame)
           testingItemset == roundTestingSet(frame)
           error == testTrainingSet(rules, testingItemset)
       IN  frame' = [frame EXCEPT
                        !.pc = "round",
                        !.trainingSet = roundTrainingSet(frame),
                        !.testingItemset = testingItemset,
                        !.shuffleData = testingItemset,
                        !.data = callerData(frame.data, testingItemset),
                        !.trainingRules = rules,
                        !.total = testTotal(rules, testingItemset),
                        !.numIncorrect = testIncorrect(rules, testingItemset),
                        !.error = error,
                        !.averageError = NumAdd(frame.averageError, error),
                        !.count = frame.count + 1]
    /\ UNCHANGED <<file, rulesMem, tpc, targ, tout, getVars, overlapped, lastWrite, pipe>>

\* An exception in the executor rejects the promise with it.
RoundThrow ==
    /\ frame.pc = "shuffle"
    /\ frame.top <= 1
    /\ roundThrows(frame)
    /\ tpc' = [tpc EXCEPT ![frame.id] = "rejected"]
    /\ tout' = [tout EXCEPT ![frame.id] = [NoOut EXCEPT !.err = "TypeError"]]
    /\ frame' = NoFrame
    /\ UNCHANGED <<file, rulesMem, targ, getVars, overlapped, lastWrite, pipe>>

\* count < rounds: the next round.
NextRound ==
    /\ frame.pc = "round"
    /\ frame.count < Rounds
    /\ frame' = beginRound(frame)
    /\ UNCHANGED <<file, rulesMem, tpc, targ, tout, getVars, overlapped, lastWrite, pipe>>

\* The training set of the last round in the place of data.
lastTrainingSet(f) == f.trainingSet

\* The array that train passes to _getOptimalItemset and _getRules after
\* _testData has returned: data.
finalData(f) == f.data

\* The rounds are over: the rules of all the data, this.rules = rules, and
\* fs.writeFile(path, jstr(rules), callback).
TrainFinal ==
    /\ frame.pc = "round"
    /\ frame.count >= Rounds
    /\ LET id == frame.id
           optimalItemset == getOptimalItemset(finalData(frame), frame.min_support)
           rules == getRules(finalData(frame), optimalItemset, frame.min_conf)
       IN  IF getRulesThrows(finalData(frame), optimalItemset, frame.min_conf)
           THEN /\ tpc' = [tpc EXCEPT ![id] = "rejected"]
                /\ tout' = [tout EXCEPT ![id] =
                              [NoOut EXCEPT !.err = "TypeError"]]
                /\ UNCHANGED rulesMem
           ELSE /\ tpc' = [tpc EXCEPT ![id] = "open"]
                /\ tout' = [tout EXCEPT ![id] =
                              [optimalItemset |-> optimalItemset, rules |-> rules,
                               text |-> jstr(rules), err |-> "", ioerr |-> ""]]
                /\ rulesMem' = rules
    /\ frame' = NoFrame
    /\ UNCHANGED <<file, targ, getVars, overlapped, lastWrite, pipe>>

-----------------------------------------------------------------------------
(* fs.writeFile: open the file for writing, write the text, close, call back *)

\* An open whose callback settles the promise at once, without the write.
WriteOpenResolving(id) ==
    /\ frame.id = 0
    /\ tpc[id] = "open"
    /\ file' = openForWrite(file)
    /\ tpc' = [tpc EXCEPT ![id] = "resolved"]
    /\ UNCHANGED <<rulesMem, targ, tout, frame, getVars, overlapped, lastWrite, pipe>>

WriteOpen(id) ==
    /\ frame.id = 0
    /\ tpc[id] = "open"
    /\ file' = openForWrite(file)
    /\ tpc' = [tpc EXCEPT ![id] = "write"]
    /\ UNCHANGED <<rulesMem, targ, tout, frame, getVars, overlapped, lastWrite, pipe>>

WriteFinish(id) ==
    /\ frame.id = 0
    /\ tpc[id] = "write"
    /\ file' = [exists |-> TRUE, content |-> writeAtStart(file.content, tout[id].text)]
    /\ lastWrite' = id
    /\ tpc' = [tpc EXCEPT ![id] = writeCallback("").pc]
    /\ UNCHANGED <<rulesMem, targ, tout, frame, getVars, overlapped, pipe>>

\* The open or the write fails (no such directory, no permission, disk full).
WriteFail(id) ==
    /\ frame.id = 0
    /\ tpc[id] \in {"open", "write"}
    /\ tpc' = [tpc EXCEPT ![id] = writeCallback("EIO").pc]
    /\ tout' = [tout EXCEPT ![id].ioerr = "EIO", ![id].err = writeCallback("EIO").err]
    /\ UNCHANGED <<file, rulesMem, targ, frame, getVars, overlapped, lastWrite, pipe>>

-----------------------------------------------------------------------------
(* getApps: fs.readFile, then the callback *)

GetAppsCall(location) ==
    /\ frame.id = 0
    /\ gpc \in {"idle", "resolved", "rejected"}
    /\ gpc' = "reading"
    /\ gloc' = location
    /\ gres' = Unsettled
    /\ gio' = ""
    /\ UNCHANGED <<file, rulesMem, tpc, targ, tout, frame, overlapped, lastWrite, pipe>>

ReadDone ==
    /\ frame.id = 0
    /\ gpc = "reading"
    /\ file.exists
    /\ gpc' = readCallback("", file.content, gloc).pc
    /\ gres' = readCallback("", file.content, gloc).res
    /\ UNCHANGED <<file, rulesMem, tpc, targ, tout, frame, gloc, gio, overlapped, lastWrite, pipe>>

\* The read fails: there is no file (ENOENT), or the file cannot be read.
ReadFail ==
    /\ frame.id = 0
    /\ gpc = "reading"
    /\ LET err == IF file.exists THEN "EIO" ELSE "ENOENT"
       IN  /\ gio' = err
           /\ gpc' = readCallback(err, <<>>, gloc).pc
           /\ gres' = readCallback(err, <<>>, gloc).res
    /\ UNCHANGED <<file, rulesMem, tpc, targ, tout, frame, gloc, overlapped, lastWrite, pipe>>

-----------------------------------------------------------------------------
(* Specifications *)

TrainStep == ShuffleStep \/ RoundEnd \/ RoundThrow \/ NextRound \/ TrainFinal

Next ==
    \/ \E id \in Calls : tpc[id] = "idle" /\ \E a \in StoreArgs : TrainCall(id, a)
    \/ TrainStep
    \/ \E id \in Calls : WriteOpen(id) \/ WriteFinish(id) \/ WriteFail(id)
    \/ \E location \in Locations : GetAppsCall(location)
    \/ ReadDone
    \/ ReadFail

Spec == Init /\ [][Next]_vars

\* One train call on any dataset of up to MaxLen observations, and its write.
TrainRuns == TrainStep \/ WriteOpen(1) \/ WriteFinish(1) \/ WriteFail(1)

NextTrain ==
    \/ tpc[1] = "idle" /\ \E a \in TrainArgs : TrainCall(1, a)
    \/ TrainRuns

SpecTrain == Init /\ [][NextTrain]_vars

\* The steps of the executor that compute a round or the final table, and
\* the states in which one of them is to be taken: the split of a round is
\* shuffled, or the last round is over.  RoundEnd and RoundThrow divide the
\* first case between them and TrainFinal is the second, and each of them
\* changes frame, so Computing is ENABLED <<Computes>>_vars.
Computes == RoundEnd \/ RoundThrow \/ TrainFinal

Computing ==
    \/ frame.pc = "shuffle" /\ frame.top <= 1
    \/ frame.pc = "round" /\ frame.count >= Rounds

\* The other steps of the call: a swap of the shuffle, the start of the next
\* round, and the steps of fs.writeFile.
Proceeds ==
    ShuffleStep \/ NextRound \/ WriteOpen(1) \/ WriteFinish(1) \/ WriteFail(1)

\* The same with the event loop running on: once train is called its
\* executor runs to its end and fs.writeFile calls back, with or without
\* an error.  The second conjunct is weak fairness of Computes, with
\* Computing written for its enabling condition.
SpecTrainFair ==
    /\ SpecTrain
    /\ WF_vars(Proceeds)
    /\ ([]<>(~Computing) \/ []<><<Computes>>_vars)

\* The worked example: one train call, its write, and the reads after it.
NextExample ==
    \/ TrainCall(1, ExampleArgs)
    \/ ShuffleStep \/ RoundEnd \/ NextRound \/ TrainFinal
    \/ WriteOpen(1) \/ WriteFinish(1)
    \/ \E location \in Locations : tpc[1] = "resolved" /\ GetAppsCall(location)
    \/ ReadDone

SpecExample == Init /\ [][NextExample]_vars

-----------------------------------------------------------------------------
(* The pipeline of _getOptimalItemset and _getRules, a stage at a time, on *)
(* every dataset of up to MaxPipeLen observations.                         *)

PipeInputs ==
    { [NoPipe EXCEPT !.stage = "input", !.data = d, !.min_support = ms, !.min_conf = mc] :
        d \in SeqsUpTo(PipeObs, MaxPipeLen), ms \in PipeSupports, mc \in PipeConfs }

InitPipeline ==
    /\ file = [exists |-> FALSE, content |-> <<>>]
    /\ rulesMem = <<>>
    /\ tpc = [id \in Calls |-> "idle"]
    /\ targ = [id \in Calls |-> NoArgs]
    /\ tout = [id \in Calls |-> NoOut]
    /\ frame = NoFrame
    /\ gpc = "idle"
    /\ gloc = ""
    /\ gres = Unsettled
    /\ gio = ""
    /\ overlapped = FALSE
    /\ lastWrite = 0
    /\ pipe \in PipeInputs

sysVars == <<file, rulesMem, tpc, targ, tout, frame, gpc, gloc, gres, gio,
             overlapped, lastWrite>>

\* this._countItemsets(data)
PipeCount ==
    /\ pipe.stage = "input"
    /\ pipe' = [pipe EXCEPT !.stage = "counted", !.counted = countItemsets(pipe.data)]
    /\ UNCHANGED sysVars

\* this._itemsetPrune(counted, data.length, min_support)
PipePrune ==
    /\ pipe.stage = "counted"
    /\ pipe' = [pipe EXCEPT !.stage = "pruned",
                            !.kept = itemsetPrune(pipe.counted, Len(pipe.data),
                                                  pipe.min_support)]
    /\ UNCHANGED sysVars

\* The first loop of _getRules.
PipeEmit ==
    /\ pipe.stage = "pruned"
    /\ pipe' = [pipe EXCEPT !.stage = "emitted",
                            !.emitted = emitRules(pipe.data, pipe.kept, pipe.min_conf)]
    /\ UNCHANGED sysVars

\* The second loop of _getRules.
PipeRank ==
    /\ pipe.stage = "emitted"
    /\ pipe' = [pipe EXCEPT !.stage = "ranked",
                            !.table = stripRules(sortRules(pipe.emitted))]
    /\ UNCHANGED sysVars

\* The same dataset through the older build.
PipeLib ==
    /\ pipe.stage = "ranked"
    /\ pipe' = [pipe EXCEPT !.stage = "done",
                            !.lib = getRulesLib(pipe.data,
                                        itemsetPruneLib(countItemsets(pipe.data),
                                                        Len(pipe.data), pipe.min_support),
                                        pipe.min_conf)]
    /\ UNCHANGED sysVars

NextPipeline == PipeCount \/ PipePrune \/ PipeEmit \/ PipeRank \/ PipeLib

SpecPipeline == InitPipeline /\ [][NextPipeline]_vars

-----------------------------------------------------------------------------
(* Properties *)

\* The executor of train call id has computed its table and handed its
\* text to fs.writeFile.
Computed(id) == tout[id].text # <<>>

\* The pipeline run has passed the given stage.
Pruned == pipe.stage \in {"pruned", "emitted", "ranked", "done"}
Emitted == pipe.stage \in {"emitted", "ranked", "done"}

\* CategoryFrequency: the observations of data in which v stands in either field.
CategoryFrequency(data, v) ==
    Cardinality({i \in DOMAIN data : data[i].pcat = v \/ data[i].acat = v})

\* conFreq / hypFreq >= min_conf for a retained itemset e of the pipeline
\* run, and hypFreq / conFreq >= min_conf, as comparisons of fractions.
ForwardPasses(e) ==
    CategoryFrequency(pipe.data, parsePair(e.key)[2]) * pipe.min_conf.den
        >= pipe.min_conf.num * CategoryFrequency(pipe.data, parsePair(e.key)[1])
ReversePasses(e) ==
    CategoryFrequency(pipe.data, parsePair(e.key)[1]) * pipe.min_conf.den
        >= pipe.min_conf.num * CategoryFrequency(pipe.data, parsePair(e.key)[2])

\* The first loop of _getRules emitted the rule h -> c with count n.
Emits(h, c, n) ==
    \E i \in DOMAIN pipe.emitted :
        /\ pipe.emitted[i].key = h
        /\ \E j \in DOMAIN pipe.emitted[i].val :
               pipe.emitted[i].val[j] = [app |-> c, count |-> n]

\* ---- C1 ----------------------------------------------------------------
ExampleItemsets ==
    << [key |-> jstrPair("cafe", "maps"), n |-> 5],
       [key |-> jstrPair("cafe", "weather"), n |-> 3],
       [key |-> jstrPair("gym", "fitness"), n |-> 2] >>
ExampleTable ==
    << [key |-> "cafe", val |-> <<"maps">>], [key |-> "gym", val |-> <<"fitness">>] >>
ExampleAnswer(location) ==
    IF location = "cafe" THEN <<"maps">>
    ELSE IF location = "gym" THEN <<"fitness">>
    ELSE <<>>

\* C1: train on 5 x (cafe, maps), 3 x (cafe, weather), 2 x (gym, fitness) with
\* min_support 0.2 and min_conf 0.6 does not fail, retains the three itemsets
\* with counts 5, 3 and 2, and commits exactly the table cafe -> [maps],
\* gym -> [fitness], in memory and, once the promise has resolved, in the
\* file; getApps then answers [maps] for cafe, [fitness] for gym and the
\* empty list for maps.
C1_WorkedExample ==
    \A id \in Calls :
        targ[id] = ExampleArgs =>
            /\ tpc[id] # "rejected"
            /\ Computed(id) =>
                   /\ tout[id].optimalItemset = ExampleItemsets
                   /\ tout[id].rules = ExampleTable
                   /\ rulesMem = ExampleTable
            /\ tpc[id] = "resolved" =>
                   /\ file.exists
                   /\ parse(file.content) = [ok |-> TRUE, rules |-> ExampleTable]
            /\ (gpc = "resolved" /\ gloc \in {"cafe", "gym", "maps"}) =>
                   gres = Settled("list", ExampleAnswer(gloc), "")

\* The example's train has resolved and getApps("cafe") has answered [maps].
C1_Witness ==
    /\ targ[1] = ExampleArgs
    /\ tpc[1] = "resolved"
    /\ gpc = "resolved"
    /\ gloc = "cafe"
    /\ gres.val = <<"maps">>

\* ---- C2 ----------------------------------------------------------------
\* The train calls so far ran one after the other and all of them resolved.
Sequential ==
    /\ ~overlapped
    /\ tpc[1] # "idle"
    /\ \A id \in Calls : tpc[id] \in {"idle", "resolved"}

LastCalled ==
    CHOOSE id \in Calls : tpc[id] # "idle" /\ \A j \in Calls : j > id => tpc[j] = "idle"

\* The list that the pipeline gives for category c on the arguments of call id.
ComputedFor(id, c) ==
    LET table == getRules(targ[id].data,
                          getOptimalItemset(targ[id].data, targ[id].min_support),
                          targ[id].min_conf)
    IN  IF \E i \in DOMAIN table : table[i].key = c
        THEN table[CHOOSE i \in DOMAIN table : table[i].key = c].val
        ELSE <<>>

\* C2: after train calls that ran one after the other and all resolved, a
\* read of getApps(c) that succeeds resolves, for every category c, with
\* exactly the ordered list that the most recent train computed for c from
\* its own arguments (the empty list if it computed none).
C2_ReadBack ==
    [][ (gpc = "reading" /\ gpc' # "reading" /\ gio' = "" /\ Sequential)
            => /\ gpc' = "resolved"
               /\ gres' = Settled("list", ComputedFor(LastCalled, gloc), "") ]_vars

\* ---- C3 ----------------------------------------------------------------
\* C3: when the read succeeds and the file holds a rule table of which c is
\* no hypothesis, getApps(c) resolves with the empty list: it is not
\* rejected and it resolves with nothing but a list.
C3_UnknownGivesEmptyList ==
    [][ (/\ gpc = "reading" /\ gpc' # "reading" /\ gio' = ""
         /\ parse(file.content).ok
         /\ \A i \in DOMAIN parse(file.content).rules :
                parse(file.content).rules[i].key # gloc)
            => /\ gpc' = "resolved"
               /\ gres' = Settled("list", <<>>, "") ]_vars

\* ---- C4 ----------------------------------------------------------------
\* C4: two train calls with the same data, min_support and min_conf commit
\* the same retained itemsets, the same table and the same text, whatever
\* their shuffles were.
C4_SameArgumentsSameTable ==
    \A i \in Calls : \A j \in Calls :
        (/\ Computed(i) /\ Computed(j)
         /\ targ[i].data = targ[j].data
         /\ targ[i].min_support = targ[j].min_support
         /\ targ[i].min_conf = targ[j].min_conf)
            => /\ tout[i].optimalItemset = tout[j].optimalItemset
               /\ tout[i].rules = tout[j].rules
               /\ tout[i].text = tout[j].text

\* Two calls on the same two observations have both committed a table
\* that is not empty.
C4_Witness ==
    \E i \in Calls : \E j \in Calls :
        /\ i # j
        /\ Computed(i) /\ Computed(j)
        /\ targ[i] = targ[j]
        /\ Len(targ[i].data) = 2
        /\ tout[i].rules # <<>>

\* ---- C5 ----------------------------------------------------------------
\* C5: while the rounds of _testData run, and after them, the data and the
\* thresholds of the call are what the caller passed, and the committed
\* itemsets and table are those of the pipeline on the whole original
\* dataset with the original thresholds.
C5_RoundsLeaveArguments ==
    /\ frame.id # 0 =>
           /\ frame.data = targ[frame.id].data
           /\ frame.min_support = targ[frame.id].min_support
           /\ frame.min_conf = targ[frame.id].min_conf
    /\ \A id \in Calls :
           Computed(id) =>
               /\ tout[id].optimalItemset
                      = getOptimalItemset(targ[id].data, targ[id].min_support)
               /\ tout[id].rules
                      = getRules(targ[id].data,
                                 getOptimalItemset(targ[id].data, targ[id].min_support),
                                 targ[id].min_conf)

\* The last round is over, and its shuffle had moved another observation to
\* the end of the copy: the first one popped is not the last one of data.
C5_Witness ==
    /\ frame.pc = "round"
    /\ frame.count = Rounds
    /\ Len(frame.data) >= 3
    /\ frame.trainingSet[1] # frame.data[Len(frame.data)]
    /\ frame.data = targ[frame.id].data

\* ---- C6 ----------------------------------------------------------------
\* C6: when fs.writeFile reports an error, the promise of train is rejected
\* with that error and stays rejected; when fs.readFile reports an error,
\* the promise of getApps is rejected with that error and carries no list.
C6_ErrorsReject ==
    /\ \A id \in Calls :
           tout[id].ioerr # "" =>
               /\ tpc[id] = "rejected"
               /\ tout[id].err = tout[id].ioerr
    /\ gio # "" =>
           /\ gpc = "rejected"
           /\ gres = Settled("error", <<>>, gio)

\* A write has failed and a read has failed.
C6_Witness ==
    /\ \E id \in Calls : tout[id].ioerr = "EIO" /\ tpc[id] = "rejected"
    /\ gio # ""
    /\ gpc = "rejected"

\* ---- C7 ----------------------------------------------------------------
\* C7: when train calls have overlapped and all have resolved, the file
\* holds the complete text of the call whose write finished last.
C7_LastWriteWins ==
    (overlapped /\ \A id \in Calls : tpc[id] = "resolved")
        => /\ file.exists
           /\ file.content = tout[lastWrite].text

\* ---- C8 ----------------------------------------------------------------
\* C8: the pruner keeps exactly the counted itemsets whose count / N is at
\* least min_support (equality keeps), with their counts and in the order of
\* their first occurrence.
C8_PruneKeepsSupported ==
    Pruned =>
        pipe.kept = SelectSeq(pipe.counted,
                        LAMBDA e : e.n * pipe.min_support.den
                                       >= pipe.min_support.num * Len(pipe.data))

\* An itemset whose support equals min_support was kept, and another
\* itemset was dropped.
C8_Witness ==
    /\ pipe.stage = "pruned"
    /\ Len(pipe.kept) < Len(pipe.counted)
    /\ \E i \in DOMAIN pipe.kept :
           pipe.kept[i].n * pipe.min_support.den = pipe.min_support.num * Len(pipe.data)

\* ---- C9 ----------------------------------------------------------------
\* C9: for every retained itemset (hyp, con) with count C such that
\* CategoryFrequency(con) / CategoryFrequency(hyp) >= min_conf over the whole
\* dataset (equality qualifies), the rule hyp -> con with count C is emitted.
C9_ForwardRuleEmitted ==
    Emitted =>
        \A i \in DOMAIN pipe.kept :
            ForwardPasses(pipe.kept[i]) =>
                Emits(parsePair(pipe.kept[i].key)[1], parsePair(pipe.kept[i].key)[2],
                      pipe.kept[i].n)

\* A retained itemset whose confidence equals min_conf, below 1, has its rule.
C9_Witness ==
    /\ pipe.stage = "emitted"
    /\ pipe.min_conf.num < pipe.min_conf.den
    /\ \E i \in DOMAIN pipe.kept :
           /\ ForwardPasses(pipe.kept[i])
           /\ CategoryFrequency(pipe.data, parsePair(pipe.kept[i].key)[2]) * pipe.min_conf.den
                  = pipe.min_conf.num
                        * CategoryFrequency(pipe.data, parsePair(pipe.kept[i].key)[1])
           /\ Emits(parsePair(pipe.kept[i].key)[1], parsePair(pipe.kept[i].key)[2],
                    pipe.kept[i].n)

EmittedTriples ==
    UNION { { <<pipe.emitted[i].key, pipe.emitted[i].val[j].app,
                pipe.emitted[i].val[j].count>> : j \in DOMAIN pipe.emitted[i].val } :
            i \in DOMAIN pipe.emitted }

RECURSIVE RuleCount(_, _)
RuleCount(rules, i) ==
    IF i > Len(rules) THEN 0 ELSE Len(rules[i].val) + RuleCount(rules, i + 1)

ForwardTriples ==
    { <<parsePair(pipe.kept[i].key)[1], parsePair(pipe.kept[i].key)[2], pipe.kept[i].n>> :
        i \in {k \in DOMAIN pipe.kept : ForwardPasses(pipe.kept[k])} }

RetainedForward(h, c) ==
    \E k \in DOMAIN pipe.kept :
        /\ parsePair(pipe.kept[k].key) = <<h, c>>
        /\ ForwardPasses(pipe.kept[k])

\* C11: at most one rule is emitted per retained itemset.  There are no more
\* rules than retained itemsets, and for a retained itemset (hyp, con) a
\* rule con -> hyp is there only as the forward rule of the retained
\* itemset (con, hyp), also when the reciprocal ratio of (hyp, con) meets
\* min_conf.  The older build emits no more rules than retained itemsets
\* either.
C11_OneRulePerItemset ==
    /\ Emitted =>
           /\ RuleCount(pipe.emitted, 1) <= Len(pipe.kept)
           /\ \A i \in DOMAIN pipe.kept :
                  LET hc == parsePair(pipe.kept[i].key)
                  IN  \A n \in 1..Len(pipe.data) :
                          Emits(hc[2], hc[1], n) => RetainedForward(hc[2], hc[1])
    /\ pipe.stage = "done" => RuleCount(pipe.lib, 1) <= Len(pipe.kept)

\* A retained itemset of two different categories qualifies in both
\* directions, and only hyp -> con has been emitted.
C11_Witness ==
    /\ pipe.stage = "emitted"
    /\ \E i \in DOMAIN pipe.kept :
           LET hc == parsePair(pipe.kept[i].key)
           IN  /\ hc[1] # hc[2]
               /\ ForwardPasses(pipe.kept[i])
               /\ ReversePasses(pipe.kept[i])
               /\ Emits(hc[1], hc[2], pipe.kept[i].n)
               /\ \A j \in DOMAIN pipe.emitted : pipe.emitted[j].key # hc[2]

\* ---- C12 ---------------------------------------------------------------
\* The pipeline run has counted its itemsets.
Counted == pipe.stage \in {"counted", "pruned", "emitted", "ranked", "done"}

\* hypFreq and conFreq as _getRules computes them for an itemset e.
HypFreq(e) == valueFreq(pipe.data, parsePair(e.key)[1])
ConFreq(e) == valueFreq(pipe.data, parsePair(e.key)[2])

\* C12 as the specification states it: for every itemset the counter
\* produces, conFreq / hypFreq lies in [0, 1].
C12_ConfidenceAtMostOne ==
    Counted =>
        \A i \in DOMAIN pipe.counted :
            /\ ConFreq(pipe.counted[i]) >= 0
            /\ ConFreq(pipe.counted[i]) <= HypFreq(pipe.counted[i])

\* C12: for every itemset the counter produces from a dataset of N
\* observations, both frequencies lie in 1..N, so conFreq / hypFreq lies in
\* [1/N, N]; it exceeds 1 when the conclusion occurs in more observations
\* than the hypothesis.
C12_ConfidenceBounds ==
    Counted =>
        \A i \in DOMAIN pipe.counted :
            /\ HypFreq(pipe.counted[i]) \in 1..Len(pipe.data)
            /\ ConFreq(pipe.counted[i]) \in 1..Len(pipe.data)
            /\ ConFreq(pipe.counted[i]) * Len(pipe.data) >= HypFreq(pipe.counted[i])
            /\ ConFreq(pipe.counted[i]) <= Len(pipe.data) * HypFreq(pipe.counted[i])

\* An itemset whose conclusion occurs in every observation and whose
\* hypothesis in one only: its ratio is N, with N at least 2.
C12_Witness ==
    /\ pipe.stage = "counted"
    /\ Len(pipe.data) >= 2
    /\ \E i \in DOMAIN pipe.counted :
           /\ HypFreq(pipe.counted[i]) = 1
           /\ ConFreq(pipe.counted[i]) = Len(pipe.data)

\* ---- C13 ---------------------------------------------------------------
\* C13: a round in which no test observation was considered has the error
\* rate 0, the sum of the error rates stays a number, and so does the mean
\* when the rounds are over.
C13_NoConsideredGivesZero ==
    (frame.pc = "round" /\ frame.total = 0) =>
        /\ frame.error = Num(0)
        /\ ~frame.averageError.nan
        /\ frame.count = Rounds => ~averageOf(frame.averageError, Rounds).nan

\* ---- C14 ---------------------------------------------------------------
\* How often x occurs in the sequence s.
Occurrences(s, x) == Cardinality({i \in DOMAIN s : s[i] = x})

\* training and test are a split of data: training has round(N * r) + 1
\* elements, each an observation of data, test has the other
\* N - (round(N * r) + 1), and together they are data as a multiset.
IsSplit(data, testRatio, training, test) ==
    /\ Len(training) = numTrainingOf(data, testRatio) + 1
    /\ \A i \in DOMAIN training : \E k \in DOMAIN data : training[i] = data[k]
    /\ Len(test) = Len(data) - (numTrainingOf(data, testRatio) + 1)
    /\ \A k \in DOMAIN data :
           Occurrences(training, data[k]) + Occurrences(test, data[k])
               = Occurrences(data, data[k])

\* C14: in every round of a train call on N >= 1 observations, the subsets
\* that the pops take from the shuffled copy, and the subsets of the round
\* once it has ended, are such a split.
C14_SplitSizes ==
    (frame.id # 0 /\ Len(frame.data) >= 1) =>
        /\ (frame.pc = "shuffle" /\ frame.top <= 1) =>
               IsSplit(frame.data, frame.testRatio,
                       roundTrainingSet(frame), roundTestingSet(frame))
        /\ frame.pc = "round" =>
               IsSplit(frame.data, frame.testRatio,
                       frame.trainingSet, frame.testingItemset)

\* ---- C15 ---------------------------------------------------------------
\* The table has an entry for h; the entry of o's location category lists
\* o's app category.
HasEntry(table, h) == \E i \in DOMAIN table : table[i].key = h
Explained(table, o) ==
    \E i \in DOMAIN table :
        /\ table[i].key = o.pcat
        /\ \E j \in DOMAIN table[i].val : table[i].val[j] = o.acat

\* C15: when a round has ended, its total is the number of test
\* observations whose location category has an entry in the round's table,
\* and its unexplained count is the number of those whose app category is
\* not among the entry's conclusions; the other test observations add to
\* neither.
C15_CountedAndUnexplained ==
    frame.pc = "round" =>
        /\ frame.total
               = Cardinality({i \in DOMAIN frame.testingItemset :
                                 HasEntry(frame.trainingRules, frame.testingItemset[i].pcat)})
        /\ frame.numIncorrect
               = Cardinality({i \in DOMAIN frame.testingItemset :
                                 /\ HasEntry(frame.trainingRules, frame.testingItemset[i].pcat)
                                 /\ ~Explained(frame.trainingRules, frame.testingItemset[i])})

\* A round whose one test observation has an entry for its location
\* category that does not list its app category.
C15_Witness ==
    /\ frame.pc = "round"
    /\ Len(frame.testingItemset) = 1
    /\ HasEntry(frame.trainingRules, frame.testingItemset[1].pcat)
    /\ ~Explained(frame.trainingRules, frame.testingItemset[1])
    /\ frame.total = 1
    /\ frame.numIncorrect = 1

\* ---- C16 ---------------------------------------------------------------
\* The second loop of _getRules has run.
Ranked == pipe.stage \in {"ranked", "done"}

\* The co-occurrence count of (h, c) in the dataset, and the position of
\* its first observation.
CoCount(h, c) == Occurrences(pipe.data, Obs(h, c))
FirstSeen(h, c) ==
    CHOOSE i \in DOMAIN pipe.data :
        /\ pipe.data[i] = Obs(h, c)
        /\ \A k \in DOMAIN pipe.data : pipe.data[k] = Obs(h, c) => i <= k

\* The place of conclusion c among the conclusions cs of hypothesis h:
\* after those with a higher count, and after those with the same count
\* that were seen earlier.
PlaceOf(h, c, cs) ==
    1 + Cardinality({d \in cs : CoCount(h, d) > CoCount(h, c)})
      + Cardinality({d \in cs : /\ CoCount(h, d) = CoCount(h, c)
                                /\ FirstSeen(h, d) < FirstSeen(h, c)})

\* C16: the published table has the hypotheses of the emitted rules, and
\* under each of them the bare conclusion categories of its rules, ordered
\* by co-occurrence count, highest first, conclusions of equal count in the
\* order in which their itemsets were first seen in the dataset.
C16_RankedByCount ==
    Ranked =>
        /\ Len(pipe.table) = Len(pipe.emitted)
        /\ \A i \in DOMAIN pipe.emitted :
               LET h  == pipe.emitted[i].key
                   cs == {pipe.emitted[i].val[j].app : j \in DOMAIN pipe.emitted[i].val}
               IN  /\ pipe.table[i].key = h
                   /\ Len(pipe.table[i].val) = Len(pipe.emitted[i].val)
                   /\ \A c \in cs : pipe.table[i].val[PlaceOf(h, c, cs)] = c

\* A hypothesis with several conclusions whose published order is not the
\* order of emission: a conclusion seen later has the higher count.
C16_Witness ==
    /\ pipe.stage = "ranked"
    /\ \E i \in DOMAIN pipe.emitted :
           /\ Len(pipe.emitted[i].val) >= 2
           /\ pipe.table[i].val[1] # pipe.emitted[i].val[1].app

\* ---- C17 ---------------------------------------------------------------
\* The observations with v as location category, as app category, as both.
AsLocation(v) == {i \in DOMAIN pipe.data : pipe.data[i].pcat = v}
AsApp(v) == {i \in DOMAIN pipe.data : pipe.data[i].acat = v}

\* C17: the frequency _valueFreq gives for a category v is the number of
\* observations with v as location category plus the number with v as app
\* category less the number with v as both, and for every itemset the
\* counter produced the frequencies of its hypothesis and of its conclusion
\* are at least 1.
C17_FrequencyAtLeastOne ==
    Counted =>
        /\ \A v \in PipeCats :
               valueFreq(pipe.data, v)
                   = Cardinality(AsLocation(v)) + Cardinality(AsApp(v))
                     - Cardinality(AsLocation(v) \cap AsApp(v))
        /\ \A i \in DOMAIN pipe.counted :
               /\ HypFreq(pipe.counted[i]) >= 1
               /\ ConFreq(pipe.counted[i]) >= 1

\* The rules have been emitted from a dataset in which a category stands in
\* both fields of one observation and in one field of another.
C17_Witness ==
    /\ pipe.stage = "emitted"
    /\ \E v \in PipeCats :
           /\ AsLocation(v) \cap AsApp(v) # {}
           /\ AsLocation(v) # AsApp(v)
           /\ valueFreq(pipe.data, v) = Cardinality(AsLocation(v) \cup AsApp(v))

\* ---- C18 ---------------------------------------------------------------
RECURSIVE SumCounts(_, _)
SumCounts(m, i) == IF i > Len(m) THEN 0 ELSE m[i].n + SumCounts(m, i + 1)

\* The pair of the i-th entry of the counter's map, as an observation.
PairOf(i) == Obs(parsePair(pipe.counted[i].key)[1], parsePair(pipe.counted[i].key)[2])

\* C18: the counter's map has one entry for each distinct pair of the
\* dataset and no other, keyed by the text of the pair; its count is the
\* number of observations with exactly that pair, a positive integer; the
\* entries stand in the order in which their pairs are first seen; the
\* counts sum to the number of observations; the empty dataset gives the
\* empty map.
C18_CounterCounts ==
    Counted =>
        /\ \A k \in DOMAIN pipe.data : \E i \in DOMAIN pipe.counted : PairOf(i) = pipe.data[k]
        /\ \A i \in DOMAIN pipe.counted :
               /\ pipe.counted[i].key = jstrPair(PairOf(i).pcat, PairOf(i).acat)
               /\ pipe.counted[i].n = Occurrences(pipe.data, PairOf(i))
               /\ pipe.counted[i].n >= 1
               /\ \A j \in DOMAIN pipe.counted :
                      i < j => /\ PairOf(i) # PairOf(j)
                               /\ FirstSeen(PairOf(i).pcat, PairOf(i).acat)
                                      < FirstSeen(PairOf(j).pcat, PairOf(j).acat)
        /\ SumCounts(pipe.counted, 1) = Len(pipe.data)
        /\ pipe.data = <<>> => pipe.counted = <<>>

\* Two pairs have been counted, the one seen first once and the other twice.
C18_Witness ==
    /\ pipe.stage = "counted"
    /\ Len(pipe.counted) = 2
    /\ pipe.counted[1].n = 1
    /\ pipe.counted[2].n = 2

\* The empty dataset has been counted.
C18_WitnessEmpty ==
    /\ pipe.stage = "counted"
    /\ pipe.data = <<>>
    /\ pipe.counted = <<>>

\* ---- C19 ---------------------------------------------------------------
\* C19: in the table a train call has committed, every hypothesis has a
\* list that is not empty and names no conclusion twice, and every pair
\* (h, c) of the table is a pair of the call's dataset whose support
\* count / N is at least min_support and whose ratio
\* CategoryFrequency(c) / CategoryFrequency(h) is at least min_conf.
C19_TableSound ==
    \A id \in Calls :
        Computed(id) =>
            LET table == tout[id].rules
                data  == targ[id].data
                ms    == targ[id].min_support
                mc    == targ[id].min_conf
            IN  \A i \in DOMAIN table :
                    /\ table[i].val # <<>>
                    /\ \A j \in DOMAIN table : table[j].key = table[i].key => j = i
                    /\ \A j \in DOMAIN table[i].val :
                           LET h == table[i].key
                               c == table[i].val[j]
                           IN  /\ \A k \in DOMAIN table[i].val : table[i].val[k] = c => k = j
                               /\ Occurrences(data, Obs(h, c)) >= 1
                               /\ Occurrences(data, Obs(h, c)) * ms.den >= ms.num * Len(data)
                               /\ CategoryFrequency(data, c) * mc.den
                                      >= mc.num * CategoryFrequency(data, h)

\* A train call has committed a table that is not empty, from a dataset
\* with a pair that meets min_conf and is below the support threshold.
C19_Witness ==
    /\ Computed(1)
    /\ tout[1].rules # <<>>
    /\ \E k \in DOMAIN targ[1].data :
           /\ Occurrences(targ[1].data, targ[1].data[k]) * targ[1].min_support.den
                  < targ[1].min_support.num * Len(targ[1].data)
           /\ CategoryFrequency(targ[1].data, targ[1].data[k].acat) * targ[1].min_conf.den
                  >= targ[1].min_conf.num
                         * CategoryFrequency(targ[1].data, targ[1].data[k].pcat)

\* A train call has committed a table that is not empty, from a dataset
\* with a pair that meets min_support and is below the confidence threshold.
C19_WitnessConfidence ==
    /\ Computed(1)
    /\ tout[1].rules # <<>>
    /\ \E k \in DOMAIN targ[1].data :
           /\ Occurrences(targ[1].data, targ[1].data[k]) * targ[1].min_support.den
                  >= targ[1].min_support.num * Len(targ[1].data)
           /\ CategoryFrequency(targ[1].data, targ[1].data[k].acat) * targ[1].min_conf.den
                  < targ[1].min_conf.num
                        * CategoryFrequency(targ[1].data, targ[1].data[k].pcat)

\* ---- C20 ---------------------------------------------------------------
Settling == {"resolved", "rejected"}

\* What a step may do to train call id.
SettlesInOrder(id) ==
    \* settled once, and for good
    /\ tpc[id] \in Settling => tpc'[id] = tpc[id]
    \* the executor starts once
    /\ (tpc'[id] = "sync" /\ tpc[id] # "sync") => tpc[id] = "idle"
    \* the write is issued once, by the executor, after the fifth round,
    \* with the final table set as this.rules and its text handed over
    /\ (tpc'[id] = "open" /\ tpc[id] # "open") =>
           /\ tpc[id] = "sync"
           /\ frame.id = id
           /\ frame.pc = "round"
           /\ frame.count = Rounds
           /\ rulesMem' = tout'[id].rules
           /\ tout'[id].text = jstr(rulesMem')
    /\ (tpc'[id] = "write" /\ tpc[id] # "write") => tpc[id] = "open"
    \* the promise resolves by the callback of that write, after the text
    \* has been written without an error
    /\ (tpc'[id] = "resolved" /\ tpc[id] # "resolved") =>
           /\ tpc[id] = "write"
           /\ tout[id].ioerr = ""
           /\ lastWrite' = id
           /\ file'.exists
           /\ Len(file'.content) >= Len(tout[id].text)
           /\ SubSeq(file'.content, 1, Len(tout[id].text)) = tout[id].text

=============================================================================
